---- MODULE Spec2Model ----
(***************************************************************************)
(* A model of the shukarsh product-showcase server: the bulk import job   *)
(* and its mutex-guarded status (bulk_import.go), the admin gate and the   *)
(* JSON API handlers (server.go), page-view tracking (server.go) and the   *)
(* metadata scraper (scraper.go).                                          *)
(*                                                                         *)
(* Text is modelled as a sequence of one-character strings, so that        *)
(* strings.TrimSpace and strings.ToLower are computed, not assumed.        *)
(***************************************************************************)
EXTENDS Integers, Sequences, FiniteSets, TLC

(***************************************************************************)
(* Bounds of the model.                                                    *)
(***************************************************************************)
\* number of POST /api/bulk-import requests that arrive
NumRequests == 2
\* most elements (meta tags, title, price texts) of a scraped page
MaxBody == 3
\* longest product list one store-page scrape returns
MaxProducts == 2
\* most rows the products table takes: an insert into a full table fails
MaxCatalog == 2
\* number of page requests (home, search, category, product) that arrive
NumViews == 2

(***************************************************************************)
(* strings                                                                 *)
(***************************************************************************)
\* unicode.IsSpace on the characters the model uses
IsSpace(c) == c \in {" ", "\t", "\n"}

RECURSIVE TrimLeft(_)
TrimLeft(s) ==
  IF s # <<>> /\ IsSpace(Head(s)) THEN TrimLeft(Tail(s)) ELSE s

RECURSIVE TrimRight(_)
TrimRight(s) ==
  IF s # <<>> /\ IsSpace(s[Len(s)]) THEN TrimRight(SubSeq(s, 1, Len(s) - 1)) ELSE s

\* strings.TrimSpace
TrimSpace(s) == TrimRight(TrimLeft(s))

\* unicode.ToLower on the characters and text pieces the model uses
LowerChar(c) ==
  CASE c = "C" -> "c"
    [] c = "M" -> "m"
    [] c = "A" -> "a"
    [] c = "OG:TITLE" -> "og:title"
    [] c = "MEESHO.COM" -> "meesho.com"
    [] OTHER -> c

\* strings.ToLower
ToLower(s) == [i \in 1..Len(s) |-> LowerChar(s[i])]

\* the key of existingTitles: strings.ToLower(strings.TrimSpace(title))
TitleKey(s) == ToLower(TrimSpace(s))

\* all sequences over S of length at most n
SeqsUpTo(S, n) == UNION {[1..k -> S] : k \in 0..n}

(***************************************************************************)
(* bulk import: state                                                      *)
(***************************************************************************)
VARIABLES
  mu,         \* bulkImportStatus.mu: Free or the goroutine that holds it
  status,     \* bulkImportStatus, the fields under mu
  clock,      \* the wall clock read by time.Now()
  rpc,        \* position of each handleBulkImport call
  resp,       \* the HTTP response each request got
  jpc,        \* position of the runBulkImport goroutine each request started
  jloc,       \* runBulkImport's locals: storeURL, products, i, existingTitles, err
  catalog,    \* the products table, in insertion order
  nextId      \* the next AUTOINCREMENT id of the products table

\* the scraper applied to one page
VARIABLES
  sin,        \* the URL given to ScrapeProduct and what the network answers
  sout        \* what ScrapeProduct returned

\* the admin gate and the JSON API, one request at a time
VARIABLES
  config,     \* the --admin-password flag and the ADMIN_PASSWORD variable
  adminPassword, \* Server.AdminPassword
  hpc,        \* "idle", or "handler" while the wrapped handler runs
  hreq,       \* the request being served, or the last one served
  hresp,      \* its response
  invoked,    \* the handler requireAdmin passed the request to, "" if none
  hscrape     \* what ScrapeProduct returned to handleAddProduct

\* page views: the handlers that start trackView in a goroutine
VARIABLES
  vreq,       \* per page request: the page asked for, "" before it arrives
  vpc,        \* per page request: where its handler is
  tpc,        \* per page request: where its trackView goroutine is
  ctxDone,    \* per page request: whether r.Context() has been cancelled
  pageViews   \* the page_views table

\* one call of a function or handler that is checked on its own
VARIABLES
  args,       \* what it is called with
  result      \* <<what it gave>>, <<>> before the call

bulkVars == <<mu, status, clock, rpc, resp, jpc, jloc>>
dbVars == <<catalog, nextId>>
scrapeVars == <<sin, sout>>
httpVars == <<config, adminPassword, hpc, hreq, hresp, invoked, hscrape>>
viewVars == <<vreq, vpc, tpc, ctxDone, pageViews>>
callVars == <<args, result>>

vars == <<bulkVars, dbVars, scrapeVars, httpVars, viewVars, callVars>>

\* the variables the bulk import does not touch
nonBulk == <<scrapeVars, httpVars, viewVars, callVars>>

Requests == 1..NumRequests

\* store_url form values, as sequences of text pieces: absent, a bare store
\* name, a full URL
StoreForms == { <<>>, <<"MyStore">>, <<"http", "://m.example/s">> }

\* strings.HasPrefix(s, "http")
HasHttpPrefix(s) == s # <<>> /\ s[1] = "http"

\* handleBulkImport's default and normalisation of the store_url form value
NormalizeStoreURL(form) ==
  LET s == IF form = <<>>
           THEN <<"http", "s://www.meesho.com/", "ShuKarshEnterprises">>
           ELSE form
  IN  IF HasHttpPrefix(s) THEN s ELSE <<"http", "s://www.meesho.com/">> \o s

\* the products a store page can list: name (already trimmed by
\* parseMeeshoProduct) and product URL
ProductPool ==
  { [Name |-> <<"c">>, URL |-> <<"https://", "www.", "meesho.com", "/s/p/2">>],
    [Name |-> <<"M">>, URL |-> <<"https://", "www.", "meesho.com", "/s/p/1">>] }

\* the product lists parseMeeshoPage can return without an error
ScrapedLists == SeqsUpTo(ProductPool, MaxProducts)

\* the errors scrapeMeeshoStorePage can return
ScrapeErrors == {"blocked (403)", "could not find product data on page"}

\* the products table when the server starts
InitialCatalogs ==
  { <<>>,
    << [ID |-> 1, Title |-> <<" ", "C">>,
        Url |-> <<"https://", "www.", "meesho.com", "/s/p/1">>,
        Platform |-> "Meesho"] >> }

\* an insert can succeed while the table has room (it can always fail)
CanInsert == nextId <= MaxCatalog

\* INSERT INTO products ... RETURNING *: the row gets the next id
InsertProduct(params) ==
  /\ catalog' = Append(catalog, [ID |-> nextId] @@ params)
  /\ nextId' = nextId + 1

\* HTTP responses: status code, Content-Type, the body's top-level key and
\* its value, and the Location header of a redirect
NoResponse == [code |-> 0, ctype |-> "", key |-> "", value |-> "", location |-> ""]

\* w.Header().Set("Content-Type", "application/json"); json.NewEncoder(w).Encode(
\* map[string]any{key: value}); code is 200 unless WriteHeader was called
JsonBody(code, key, value) ==
  [code |-> code, ctype |-> "application/json", key |-> key, value |-> value,
   location |-> ""]

\* a request and a ScrapeProduct result that are not there
NoRequest == [method |-> "", path |-> <<>>, cookie |-> <<>>, ctype |-> ""]
NoScrape == [err |-> "", info |-> [URL |-> <<>>, Platform |-> "", Title |-> <<>>, Price |-> <<>>],
             fetches |-> <<>>]

\* the parts of the state a specification does not use stay as they start
IdleScrape == sin = [url |-> <<>>, fails |-> 0, body |-> <<>>] /\ sout = <<>>

Views == 1..NumViews

IdleViews ==
  /\ vreq = [v \in Views |-> ""]
  /\ vpc = [v \in Views |-> "new"]
  /\ tpc = [v \in Views |-> "none"]
  /\ ctxDone = [v \in Views |-> FALSE]
  /\ pageViews = <<>>

IdleCall == args = <<>> /\ result = <<>>

IdleHttp ==
  /\ config = [flag |-> "", env |-> ""] /\ adminPassword = ""
  /\ hpc = "idle" /\ hreq = NoRequest /\ hresp = NoResponse
  /\ invoked = "" /\ hscrape = NoScrape

\* the unlocked mutex, and the goroutines that can hold it
Free == <<>>
ReqOwner(r) == <<"handleBulkImport", r>>

NoJob == [storeURL |-> <<>>, products |-> <<>>, i |-> 0, existingTitles |-> {}, err |-> ""]

\* var bulkImportStatus = &BulkImportStatus{}
ZeroStatus ==
  [ Running |-> FALSE, Total |-> 0, Imported |-> 0, Skipped |-> 0, Failed |-> 0,
    Errors |-> <<>>, Products |-> <<>>, Message |-> <<>>,
    StartedAt |-> 0, FinishedAt |-> 0 ]

IdleBulk ==
  /\ mu = Free
  /\ status = ZeroStatus
  /\ clock = 1
  /\ rpc = [r \in Requests |-> "idle"]
  /\ resp = [r \in Requests |-> NoResponse]
  /\ jpc = [r \in Requests |-> "none"]
  /\ jloc = [r \in Requests |-> NoJob]

Init ==
  /\ IdleBulk
  /\ catalog \in InitialCatalogs
  /\ nextId = Len(catalog) + 1
  /\ IdleScrape
  /\ IdleHttp
  /\ IdleViews
  /\ IdleCall

(***************************************************************************)
(* handleBulkImport, one step per statement that touches shared state      *)
(***************************************************************************)
\* sync.Mutex.Lock returns only when no goroutine holds the mutex
CanLockNoExclusion == TRUE

CanLock == mu = Free

\* the guard of handleBulkImport: if bulkImportStatus.Running { ... return }
SeesRunningNever(st) == FALSE

SeesRunning(st) == st.Running

\* bulkImportStatus.mu.Lock(), if bulkImportStatus.Running.  (storeURL is
\* local to the handler until the go statement; BulkSpawn draws it.)
BulkLock(r) ==
  /\ rpc[r] = "idle"
  /\ CanLock
  /\ mu' = ReqOwner(r)
  /\ rpc' = [rpc EXCEPT ![r] = IF SeesRunning(status) THEN "reject" ELSE "set"]
  /\ UNCHANGED <<status, clock, resp, jpc, jloc, dbVars, nonBulk>>

\* Running: Unlock, answer {"error": "Import already running"} (no WriteHeader:
\* the status code is 200), return
BulkReject(r) ==
  /\ rpc[r] = "reject"
  /\ mu' = Free
  /\ resp' = [resp EXCEPT ![r] = JsonBody(200, "error", "Import already running")]
  /\ rpc' = [rpc EXCEPT ![r] = "done"]
  /\ UNCHANGED <<status, clock, jpc, jloc, dbVars, nonBulk>>

\* the fields handleBulkImport writes when it starts a job
StartedStatusKeepsCounts(now) ==
  [status EXCEPT !.Running = TRUE, !.Total = 0, !.Errors = <<>>, !.Products = <<>>,
                 !.Message = <<"Starting import...">>, !.StartedAt = now,
                 !.FinishedAt = 0]

StartedStatus(now) ==
  [ Running |-> TRUE, Total |-> 0, Imported |-> 0, Skipped |-> 0, Failed |-> 0,
    Errors |-> <<>>, Products |-> <<>>, Message |-> <<"Starting import...">>,
    StartedAt |-> now, FinishedAt |-> 0 ]

\* not Running: Running = true, the reset of every other field, Unlock
BulkSet(r) ==
  /\ rpc[r] = "set"
  /\ status' = StartedStatus(clock)
  /\ clock' = clock + 1
  /\ mu' = Free
  /\ rpc' = [rpc EXCEPT ![r] = "spawn"]
  /\ UNCHANGED <<resp, jpc, jloc, dbVars, nonBulk>>

\* storeURL from the store_url form value, go s.runBulkImport(storeURL), answer {"ok": true, "message": "Import started"}
BulkSpawn(r) ==
  /\ rpc[r] = "spawn"
  /\ jpc' = [jpc EXCEPT ![r] = "start"]
  /\ \E form \in StoreForms :
       jloc' = [jloc EXCEPT ![r] = [NoJob EXCEPT !.storeURL = NormalizeStoreURL(form)]]
  /\ resp' = [resp EXCEPT ![r] = JsonBody(200, "ok", "Import started")]
  /\ rpc' = [rpc EXCEPT ![r] = "done"]
  /\ UNCHANGED <<mu, status, clock, dbVars, nonBulk>>

handleBulkImport(r) ==
  \/ BulkLock(r)
  \/ BulkReject(r)
  \/ BulkSet(r)
  \/ BulkSpawn(r)

(***************************************************************************)
(* runBulkImport, the goroutine handleBulkImport starts.  A critical       *)
(* section mu.Lock() ... mu.Unlock() without a branch inside is one step,  *)
(* taken when the mutex can be locked.                                     *)
(***************************************************************************)
SetJob(j, pc, loc) ==
  /\ jpc' = [jpc EXCEPT ![j] = pc]
  /\ jloc' = [jloc EXCEPT ![j] = loc]

\* Message = "Fetching store page..."
JobFetching(j) ==
  /\ jpc[j] = "start"
  /\ CanLock
  /\ status' = [status EXCEPT !.Message = <<"Fetching store page...">>]
  /\ SetJob(j, "scrape", jloc[j])
  /\ UNCHANGED <<mu, clock, rpc, resp, dbVars, nonBulk>>

\* products, totalCount, err := scrapeMeeshoStorePage(storeURL): the page is
\* the environment's, so is the outcome
JobScrape(j) ==
  /\ jpc[j] = "scrape"
  /\ \/ \E e \in ScrapeErrors :
          SetJob(j, "scrape_err", [jloc[j] EXCEPT !.err = e, !.storeURL = <<>>])
     \/ \E ps \in ScrapedLists :
          SetJob(j, "set_total", [jloc[j] EXCEPT !.products = ps, !.storeURL = <<>>])
  /\ UNCHANGED <<mu, status, clock, rpc, resp, dbVars, nonBulk>>

\* if err != nil { Message = "Error: ...", Errors = append(Errors, ...); return }
JobScrapeErr(j) ==
  /\ jpc[j] = "scrape_err"
  /\ CanLock
  /\ status' = [status EXCEPT !.Message = <<"Error", jloc[j].err>>,
                              !.Errors = Append(@, <<"scrape", jloc[j].err>>)]
  /\ SetJob(j, "defer", jloc[j])
  /\ UNCHANGED <<mu, clock, rpc, resp, dbVars, nonBulk>>

\* Total = len(products), Message = "Found ..."
JobSetTotal(j) ==
  /\ jpc[j] = "set_total"
  /\ CanLock
  /\ status' = [status EXCEPT !.Total = Len(jloc[j].products),
                              !.Message = <<"Found", Len(jloc[j].products)>>]
  /\ SetJob(j, "list", jloc[j])
  /\ UNCHANGED <<mu, clock, rpc, resp, dbVars, nonBulk>>

\* existingTitles of a result of ListProducts
ExistingTitles(existing) == {TitleKey(existing[k].Title) : k \in 1..Len(existing)}

\* existing, _ := q.ListProducts(ctx): the error is dropped, a failed query
\* leaves existing empty
JobList(j) ==
  /\ jpc[j] = "list"
  /\ \E existing \in {catalog, <<>>} :
       SetJob(j, "loop", [jloc[j] EXCEPT !.existingTitles = ExistingTitles(existing),
                                         !.i = 1])
  /\ UNCHANGED <<mu, status, clock, rpc, resp, dbVars, nonBulk>>

\* for i, mp := range products { Message = "Processing i/n: name"
JobLoop(j) ==
  /\ jpc[j] = "loop"
  /\ jloc[j].i <= Len(jloc[j].products)
  /\ CanLock
  /\ status' = [status EXCEPT !.Message =
                  <<"Processing", jloc[j].i, Len(jloc[j].products),
                    jloc[j].products[jloc[j].i].Name>>]
  /\ SetJob(j, "item", jloc[j])
  /\ UNCHANGED <<mu, clock, rpc, resp, dbVars, nonBulk>>

\* the duplicate test of runBulkImport
IsDuplicate(mp, titles) == TitleKey(mp.Name) \in titles

\* the row InsertProduct adds for a scraped product
ProductRow(mp) == [Title |-> mp.Name, Url |-> mp.URL, Platform |-> "Meesho"]

\* if existingTitles[...] { skip } else { _, err := q.InsertProduct(...) }
JobItem(j) ==
  /\ jpc[j] = "item"
  /\ LET mp == jloc[j].products[jloc[j].i]
     IN  IF IsDuplicate(mp, jloc[j].existingTitles)
         THEN /\ SetJob(j, "skip", jloc[j])
              /\ UNCHANGED dbVars
         ELSE \/ /\ SetJob(j, "failed", [jloc[j] EXCEPT !.err = "insert failed"])
                 /\ UNCHANGED dbVars
              \/ /\ CanInsert
                 /\ SetJob(j, "imported", jloc[j])
                 /\ InsertProduct(ProductRow(mp))
  /\ UNCHANGED <<mu, status, clock, rpc, resp, nonBulk>>

\* Skipped++; continue
JobSkip(j) ==
  /\ jpc[j] = "skip"
  /\ CanLock
  /\ status' = [status EXCEPT !.Skipped = @ + 1]
  /\ SetJob(j, "loop", [jloc[j] EXCEPT !.i = @ + 1])
  /\ UNCHANGED <<mu, clock, rpc, resp, dbVars, nonBulk>>

\* what a failed insert does to the loop index
AfterFailedAbort(loc) == [loc EXCEPT !.i = Len(loc.products) + 1, !.err = ""]

AfterFailed(loc) == [loc EXCEPT !.i = @ + 1, !.err = ""]

\* if err != nil { Failed++; Errors = append(...); continue }
JobFailed(j) ==
  /\ jpc[j] = "failed"
  /\ CanLock
  /\ status' = [status EXCEPT !.Failed = @ + 1,
                  !.Errors = Append(@, <<"insert", jloc[j].products[jloc[j].i].Name>>)]
  /\ SetJob(j, "loop", AfterFailed(jloc[j]))
  /\ UNCHANGED <<mu, clock, rpc, resp, dbVars, nonBulk>>

\* Imported++; Products = append(Products, mp); existingTitles[...] = true
JobImported(j) ==
  /\ jpc[j] = "imported"
  /\ CanLock
  /\ LET mp == jloc[j].products[jloc[j].i]
     IN  /\ status' = [status EXCEPT !.Imported = @ + 1, !.Products = Append(@, mp)]
         /\ SetJob(j, "loop", [jloc[j] EXCEPT !.i = @ + 1,
                                  !.existingTitles = @ \cup {TitleKey(mp.Name)}])
  /\ UNCHANGED <<mu, clock, rpc, resp, dbVars, nonBulk>>

\* after the loop: Message = "Done! Imported ..."
JobFinish(j) ==
  /\ jpc[j] = "loop"
  /\ jloc[j].i > Len(jloc[j].products)
  /\ CanLock
  /\ status' = [status EXCEPT !.Message =
                  <<"Done", status.Imported, status.Skipped, status.Failed, "">>]
  /\ SetJob(j, "defer", jloc[j])
  /\ UNCHANGED <<mu, clock, rpc, resp, dbVars, nonBulk>>

\* what the deferred function of runBulkImport writes
DeferredStatusKeepsRunning(st, now) == [st EXCEPT !.FinishedAt = now]

DeferredStatus(st, now) == [st EXCEPT !.Running = FALSE, !.FinishedAt = now]

\* the deferred function: Running = false, FinishedAt = &now; the goroutine ends
JobDefer(j) ==
  /\ jpc[j] = "defer"
  /\ CanLock
  /\ status' = DeferredStatus(status, clock)
  /\ clock' = clock + 1
  /\ SetJob(j, "done", NoJob)
  /\ UNCHANGED <<mu, rpc, resp, dbVars, nonBulk>>

runBulkImport(j) ==
  \/ JobFetching(j)
  \/ JobScrape(j)
  \/ JobScrapeErr(j)
  \/ JobSetTotal(j)
  \/ JobList(j)
  \/ JobLoop(j)
  \/ JobItem(j)
  \/ JobSkip(j)
  \/ JobFailed(j)
  \/ JobImported(j)
  \/ JobFinish(j)
  \/ JobDefer(j)

Next ==
  \/ \E r \in Requests : handleBulkImport(r)
  \/ \E j \in Requests : runBulkImport(j)

Spec == Init /\ [][Next]_vars

\* a job handleBulkImport starts runs to its end: the goroutine scheduler runs
\* every runnable goroutine, and a handler that holds the mutex or is about to
\* start the job is never blocked
LiveSpec ==
  /\ Init
  /\ [][Next]_vars
  /\ \A j \in Requests : WF_vars(runBulkImport(j))
  /\ \A r \in Requests : WF_vars(BulkReject(r) \/ BulkSet(r) \/ BulkSpawn(r))

(***************************************************************************)
(* bulk import: properties                                                 *)
(***************************************************************************)
ActiveJobs == {j \in Requests : jpc[j] \notin {"none", "done"}}

Processed == status.Imported + status.Skipped + status.Failed

RejectedBody(r) == resp[r].key = "error" /\ resp[r].value = "Import already running"

\* C1: at most one runBulkImport job is active at any time; a handler decides
\* and sets Running while it holds the mutex, and Running stays true from
\* that critical section until the job's deferred function
C1_AtMostOneJob ==
  /\ Cardinality(ActiveJobs) + Cardinality({r \in Requests : rpc[r] = "spawn"}) <= 1
  /\ \A r \in Requests : rpc[r] \in {"reject", "set"} => mu = ReqOwner(r)
  /\ \A r \in Requests : rpc[r] = "spawn" \/ r \in ActiveJobs => status.Running

\* a request observes Running while another request's job is in its loop
C1_Witness ==
  \E j \in Requests : \E r \in Requests \ {j} :
    jpc[j] = "item" /\ rpc[r] = "reject"

\* C2: a request that finds Running true is rejected with "Import already
\* running", never has a job, and neither of its steps changes the status
C2_RejectedLeavesStatus ==
  /\ [](\A r \in Requests : RejectedBody(r) => jpc[r] = "none")
  /\ [][\A r \in Requests :
          /\ (rpc[r] = "idle" /\ rpc'[r] # "idle" /\ status.Running)
               => (rpc'[r] = "reject" /\ status' = status /\ jpc' = jpc)
          /\ (rpc[r] = "reject" /\ rpc'[r] # "reject")
               => (RejectedBody(r)' /\ rpc'[r] = "done" /\ status' = status /\ jpc' = jpc)
       ]_vars

\* a request was rejected while the running job had already counted a product
C2_Witness ==
  \E r \in Requests :
    RejectedBody(r) /\ status.Running /\ status.Total > 0 /\ Processed > 0

\* C3: the i-th iteration starts with i-1 products counted, each in exactly one
\* of Imported, Skipped, Failed, and a run whose scrape succeeded ends with
\* Imported + Skipped + Failed = Total
C3_EachProductCountedOnce ==
  /\ \A j \in Requests :
       jpc[j] \in {"loop", "item", "skip", "failed", "imported"} =>
         /\ Processed = jloc[j].i - 1
         /\ status.Total = Len(jloc[j].products)
         /\ jpc[j] # "loop" => jloc[j].i <= Len(jloc[j].products)
  /\ (status.Message # <<>> /\ status.Message[1] = "Done") => Processed = status.Total

\* a finished run in which the same product first failed to insert and was
\* then imported
C3_Witness ==
  /\ ~status.Running /\ status.FinishedAt # 0
  /\ status.Message[1] = "Done"
  /\ status.Total = 2 /\ status.Failed = 1 /\ status.Imported = 1
  /\ status.Errors = << <<"insert", <<"c">> >> >>
  /\ status.Products[1].Name = <<"c">>

\* C4: every started job finishes: Running leads to not Running with
\* FinishedAt set, on the error path and on the normal path
C4_JobFinishes ==
  status.Running ~> (~status.Running /\ status.FinishedAt # 0 /\ ActiveJobs = {})

\* a second job is in its loop after the first one finished
C4_Witness ==
  \E j \in Requests : \E k \in Requests \ {j} :
    /\ jpc[j] = "done" /\ jpc[k] = "item"
    /\ resp[j].key = "ok" /\ resp[k].key = "ok"

\* C12: the progress GET /api/bulk-import/status reports is consistent:
\* within one run (one StartedAt) Imported, Skipped and Failed never
\* decrease, and whenever the status handler can take the lock
\* Imported + Skipped + Failed <= Total
C12_ProgressConsistent ==
  /\ [](CanLock => Processed <= status.Total)
  /\ [][status'.StartedAt = status.StartedAt =>
         /\ status'.Imported >= status.Imported
         /\ status'.Skipped >= status.Skipped
         /\ status'.Failed >= status.Failed]_vars

\* a second run under way, one of its two products counted, the lock free
C12_Witness ==
  /\ CanLock
  /\ status.Running /\ status.StartedAt = 3
  /\ status.Total = 2 /\ status.Skipped = 1 /\ status.Imported = 0 /\ status.Failed = 0

\* the catalog rows that were there before the insert a job has just made
RowsBefore == SubSeq(catalog, 1, Len(catalog) - 1)

\* C15: a scraped product whose URL is the URL of a product already in the
\* catalog is skipped and not inserted: a job that has just inserted a
\* product found no row with that URL
C15_DuplicateURLSkipped ==
  \A j \in Requests :
    jpc[j] = "imported" =>
      LET mp == jloc[j].products[jloc[j].i]
      IN  \A k \in 1..Len(RowsBefore) : RowsBefore[k].Url # mp.URL

\* C5: every error outcome of an API handler carries a non-success status code
\* and a JSON error body; stated for the responses of handleBulkImport
C5_ErrorsCarryErrorStatus ==
  \A r \in Requests :
    resp[r].key = "error" => (resp[r].code >= 400 /\ resp[r].ctype = "application/json")

(***************************************************************************)
(* scraper.go: ScrapeProduct and its helpers.  A page body is a sequence   *)
(* of the elements the regular expressions pick out: meta tags (with the   *)
(* attribute that names them and the order of their attributes), title     *)
(* elements, and the two price texts of extractPriceFromBody.              *)
(***************************************************************************)
MetaTag(attr, first, key, content) ==
  [el |-> "meta", attr |-> attr, first |-> first, key |-> key, content |-> content]

TitleTag(text) == [el |-> "title", attr |-> "", first |-> "", key |-> "", content |-> text]

\* "price": "3" (JSON-LD) and a currency sign followed by a number
PriceText(kind, num) == [el |-> kind, attr |-> "", first |-> "", key |-> "", content |-> num]

\* strings.NewReplacer of htmlDecode, entity by entity
DecodePiece(c) ==
  CASE c = "&amp;" -> "&"
    [] c = "&lt;" -> "<"
    [] c = "&gt;" -> ">"
    [] c = "&quot;" -> "\""
    [] c = "&#39;" -> "'"
    [] c = "&#x27;" -> "'"
    [] c = "&nbsp;" -> " "
    [] OTHER -> c

htmlDecode(s) == [i \in 1..Len(s) |-> DecodePiece(s[i])]

\* the matches of metaPatterns[i] in body order: 0 and 1 read property=,
\* 2 and 3 read name=; 0 and 2 have the attribute before content=
MetaMatches(body, i) ==
  LET attr == IF i \in {0, 1} THEN "property" ELSE "name"
      first == IF i \in {0, 2} THEN "attr" ELSE "content"
      Hit(e) == e.el = "meta" /\ e.attr = attr /\ e.first = first
  IN  SelectSeq(body, Hit)

\* extractMeta: patterns 0, 2, then 1, 3; the first match whose key equals
\* prop, case-insensitively, decides, blank or not
extractMeta(body, prop) ==
  LET all == MetaMatches(body, 0) \o MetaMatches(body, 2)
               \o MetaMatches(body, 1) \o MetaMatches(body, 3)
      Named(e) == LowerChar(e.key) = LowerChar(prop)
      hits == SelectSeq(all, Named)
  IN  IF hits = <<>> THEN <<>> ELSE TrimSpace(htmlDecode(hits[1].content))

\* extractTag(body, "<title>", "</title>"): the first title element
extractTitleTag(body) ==
  LET IsTitle(e) == e.el = "title"
      hits == SelectSeq(body, IsTitle)
  IN  IF hits = <<>> THEN <<>> ELSE TrimSpace(htmlDecode(hits[1].content))

\* extractPriceFromBody: the JSON-LD price first, then the currency pattern;
\* the result starts with the rupee sign, written "Rs" here
extractPriceFromBody(body) ==
  LET IsJson(e) == e.el = "jsonprice"
      IsCur(e) == e.el = "curprice"
      js == SelectSeq(body, IsJson)
      cs == SelectSeq(body, IsCur)
  IN  IF js # <<>> THEN <<"Rs">> \o js[1].content
      ELSE IF cs # <<>> THEN <<"Rs">> \o cs[1].content
      ELSE <<>>

RECURSIVE firstNonEmpty(_)
firstNonEmpty(vals) ==
  IF vals = <<>> THEN <<>>
  ELSE IF TrimSpace(Head(vals)) # <<>> THEN TrimSpace(Head(vals))
  ELSE firstNonEmpty(Tail(vals))

\* the site names cleanTitle removes, each one text piece
TitleSuffixes ==
  { " | Meesho", " - Meesho", ": Buy Online", " | Amazon.in", " - Amazon.in",
    ": Amazon.in", " | Flipkart", " - Flipkart.com", "Amazon.in:", "Amazon.in :" }

cleanTitle(title) ==
  LET Keep(c) == c \notin TitleSuffixes
  IN  TrimSpace(SelectSeq(title, Keep))

\* strings.Contains(l, piece)
Contains(l, piece) == \E i \in 1..Len(l) : l[i] = piece

detectPlatform(url) ==
  LET l == ToLower(url)
  IN  CASE Contains(l, "meesho.com") -> "Meesho"
        [] Contains(l, "amazon.in") \/ Contains(l, "amazon.com") \/ Contains(l, "amzn.in")
             \/ Contains(l, "amzn.to") \/ Contains(l, "amzn.eu") -> "Amazon"
        [] Contains(l, "flipkart.com") \/ Contains(l, "fkrt.it") -> "Flipkart"
        [] OTHER -> "Other"

\* the arguments of firstNonEmpty for p.Title and p.Price, in the order written
TitleSourcesTwitterFirst(body) ==
  << extractMeta(body, "twitter:title"), extractMeta(body, "og:title"),
     extractTitleTag(body) >>

TitleSources(body) ==
  << extractMeta(body, "og:title"), extractMeta(body, "twitter:title"),
     extractTitleTag(body) >>

PriceSources(body) ==
  << extractMeta(body, "og:price:amount"), extractMeta(body, "product:price:amount"),
     extractPriceFromBody(body) >>

\* fetchPage: the network fails the first net.fails requests and then serves
\* net.body; attempt counts the requests of one ScrapeProduct call
fetchPage(net, attempt) ==
  IF attempt <= net.fails THEN [ok |-> FALSE, body |-> <<>>]
  ELSE [ok |-> TRUE, body |-> net.body]

NoInfo == NoScrape.info

\* ScrapeProduct with a second fetch after a failed one
ScrapeProductRetrying(rawURL, net) ==
  LET u == TrimSpace(rawURL)
      p == detectPlatform(u)
      first == fetchPage(net, 1)
      page == IF first.ok THEN first ELSE fetchPage(net, 2)
      t == cleanTitle(firstNonEmpty(TitleSources(page.body)))
  IN  IF u = <<>> THEN [err |-> "empty URL", info |-> NoInfo, fetches |-> <<>>]
      ELSE [err |-> IF page.ok THEN "" ELSE "fetch page",
            info |-> IF page.ok
                     THEN [URL |-> u, Platform |-> p,
                           Title |-> IF t = <<>> THEN <<"Product from ", p>> ELSE t,
                           Price |-> firstNonEmpty(PriceSources(page.body))]
                     ELSE NoInfo,
            fetches |-> IF first.ok THEN <<TRUE>> ELSE <<FALSE, page.ok>>]

\* ScrapeProduct: the error ("" for nil), the *ProductInfo (NoInfo for nil) and
\* the page requests it made, each with its success.  Of ProductInfo the
\* fields URL, Platform, Title and Price are modelled.
ScrapeProduct(rawURL, net) ==
  LET u == TrimSpace(rawURL)
      p == detectPlatform(u)
      page == fetchPage(net, 1)
      t == cleanTitle(firstNonEmpty(TitleSources(page.body)))
  IN  IF u = <<>> THEN [err |-> "empty URL", info |-> NoInfo, fetches |-> <<>>]
      ELSE IF p = "" THEN [err |-> "unsupported platform", info |-> NoInfo, fetches |-> <<>>]
      ELSE IF ~page.ok THEN [err |-> "fetch page", info |-> NoInfo, fetches |-> <<FALSE>>]
      ELSE [err |-> "",
            info |-> [URL |-> u, Platform |-> p,
                      Title |-> IF t = <<>> THEN <<"Product from ", p>> ELSE t,
                      Price |-> firstNonEmpty(PriceSources(page.body))],
            fetches |-> <<TRUE>>]

\* the elements a page is made of
Elements ==
  { MetaTag("property", "attr", "og:title", <<"a">>),
    MetaTag("property", "attr", "og:title", <<"&nbsp;">>),
    MetaTag("property", "content", "OG:TITLE", <<"c", " | Meesho">>),
    MetaTag("name", "attr", "twitter:title", <<"b">>),
    MetaTag("name", "content", "twitter:title", <<" ">>),
    TitleTag(<<" ", "t", " - Meesho">>),
    TitleTag(<<" | Meesho">>),
    MetaTag("property", "attr", "og:price:amount", <<"1">>),
    MetaTag("property", "attr", "og:price:amount", <<>>),
    MetaTag("name", "content", "product:price:amount", <<"2">>),
    PriceText("jsonprice", <<"3">>),
    PriceText("curprice", <<"4">>) }

Bodies == SeqsUpTo(Elements, MaxBody)

ScrapeURLs ==
  { <<"https://", "www.", "MEESHO.COM", "/p/1">>, <<" ", "https://", "amzn.to", "/x", " ">>,
    <<"https://", "example.org", "/p/1">> }

\* the inputs of ScrapeProduct: a served page, a failing network, a blank URL
ScrapeInputs ==
  [url : ScrapeURLs, fails : {0}, body : Bodies]
    \cup [url : ScrapeURLs, fails : {1, 2}, body : {<<>>}]
    \cup [url : {<<" ">>}, fails : {0}, body : {<<>>}]

ScrapeInit ==
  /\ sin \in ScrapeInputs
  /\ sout = <<>>
  /\ IdleBulk
  /\ IdleHttp
  /\ IdleViews
  /\ IdleCall
  /\ catalog = <<>> /\ nextId = 1

\* one call of ScrapeProduct
Scrape ==
  /\ sout = <<>>
  /\ sout' = <<ScrapeProduct(sin.url, [fails |-> sin.fails, body |-> sin.body])>>
  /\ UNCHANGED <<sin, bulkVars, dbVars, httpVars, viewVars, callVars>>

ScrapeNext == Scrape

ScrapeSpec == ScrapeInit /\ [][ScrapeNext]_vars

\* C9: the title comes from og:title if that is not blank, else from
\* twitter:title, else from the title element (then cleaned, or the default
\* when nothing is left); the price from og:price:amount, else
\* product:price:amount, else the body price pattern
C9_SourcePriority ==
  (sout # <<>> /\ sout[1].err = "") =>
    LET b == sin.body
        og == extractMeta(b, "og:title")
        tw == extractMeta(b, "twitter:title")
        tg == extractTitleTag(b)
        raw == IF og # <<>> THEN og ELSE IF tw # <<>> THEN tw ELSE tg
        op == extractMeta(b, "og:price:amount")
        pp == extractMeta(b, "product:price:amount")
        bp == extractPriceFromBody(b)
    IN  /\ sout[1].info.Title =
             IF cleanTitle(raw) = <<>>
             THEN <<"Product from ", sout[1].info.Platform>>
             ELSE cleanTitle(raw)
        /\ sout[1].info.Price = IF op # <<>> THEN op ELSE IF pp # <<>> THEN pp ELSE bp

\* og:title and og:price:amount are present but blank: the title is
\* twitter:title's, the price is the body pattern's
C9_Witness ==
  /\ sout # <<>> /\ sout[1].err = ""
  /\ \E i \in 1..Len(sin.body) :
       sin.body[i].key = "og:title" /\ sin.body[i].content = <<"&nbsp;">>
  /\ sout[1].info.Title = <<"b">>
  /\ sout[1].info.Price = <<"Rs", "4">>

\* the domains detectPlatform knows
MarketplaceDomains ==
  { "meesho.com", "amazon.in", "amazon.com", "amzn.in", "amzn.to", "amzn.eu",
    "flipkart.com", "fkrt.it" }

\* C14: for a URL that is not blank and names none of the known marketplace
\* domains ScrapeProduct returns the "unsupported platform" error and does
\* not fetch the page
C14_UnsupportedPlatformRejected ==
  (sout # <<>> /\ TrimSpace(sin.url) # <<>>
     /\ ~\E d \in MarketplaceDomains : Contains(ToLower(sin.url), d))
    => (sout[1].err = "unsupported platform" /\ sout[1].fetches = <<>>)

(***************************************************************************)
(* server.go: the admin gate (requireAdmin), handleAdminLogin and the      *)
(* handlers behind the gate.  One request is served at a time; requireAdmin *)
(* is one step and the handler it calls the next.                          *)
(***************************************************************************)
\* run() of cmd/srv: the flag, or ADMIN_PASSWORD when the flag is empty
RunAdminPass(cfg) == IF cfg.flag = "" THEN cfg.env ELSE cfg.flag

Configs == [flag : {"", "hunter2"}, env : {"", "letmein"}]

\* Server.adminToken: hex of the first 16 bytes of
\* sha256("shukarsh-admin-" + password); the hash is taken to be collision-free
adminToken(password) == <<"sha256/16", "shukarsh-admin-", password>>

\* the admin_token cookie of a request: absent (<<>>) or <<value>>
Cookies ==
  { <<>>, <<adminToken("hunter2")>>, <<adminToken("letmein")>>, <<adminToken("")>>,
    <<<<"garbage">>>> }

ContentTypes == {"", "application/json"}

\* the routes Serve registers behind requireAdmin, with their handlers
AdminRoutes ==
  { [method |-> "GET", path |-> <<"admin">>, handler |-> "handleAdmin"],
    [method |-> "GET", path |-> <<"admin", "analytics">>, handler |-> "handleAnalytics"],
    [method |-> "POST", path |-> <<"api", "add">>, handler |-> "handleAddProduct"],
    [method |-> "POST", path |-> <<"api", "update", "1">>, handler |-> "handleUpdateProduct"],
    [method |-> "POST", path |-> <<"api", "delete", "1">>, handler |-> "handleDeleteProduct"],
    [method |-> "POST", path |-> <<"api", "delete", "x">>, handler |-> "handleDeleteProduct"],
    [method |-> "POST", path |-> <<"api", "upload">>, handler |-> "handleUploadImage"],
    [method |-> "POST", path |-> <<"api", "bulk-import">>, handler |-> "handleBulkImport"],
    [method |-> "POST", path |-> <<"api", "bulk-import", "json">>,
     handler |-> "handleBulkImportJSON"] }

LoginRoute == [method |-> "GET", path |-> <<"admin", "login">>, handler |-> "handleAdminLogin"]

RequestOf(route, cookie, ctype) ==
  [method |-> route.method, path |-> route.path, cookie |-> cookie, ctype |-> ctype]

\* the handler the mux has for a request behind requireAdmin
HandlerOf(req) ==
  (CHOOSE route \in AdminRoutes : route.method = req.method /\ route.path = req.path).handler

IsAdminRoute(req) ==
  \E route \in AdminRoutes : route.method = req.method /\ route.path = req.path

\* isAdminAuthed with the cookie lookup error ignored
isAdminAuthedNoCookieOK(password, req) ==
  \/ password = ""
  \/ req.cookie = <<>>
  \/ req.cookie[1] = adminToken(password)

\* isAdminAuthed without the open-access case
isAdminAuthedNeedsCookie(password, req) ==
  req.cookie # <<>> /\ req.cookie[1] = adminToken(password)

isAdminAuthed(password, req) ==
  IF password = "" THEN TRUE
  ELSE IF req.cookie = <<>> THEN FALSE
  ELSE req.cookie[1] = adminToken(password)

\* strings.HasPrefix(r.URL.Path, "/api/")
HasApiPrefix(path) == Len(path) >= 2 /\ path[1] = "api"

\* http.Error(w, `{"error":"unauthorized"}`, http.StatusUnauthorized)
Unauthorized ==
  [code |-> 401, ctype |-> "text/plain; charset=utf-8", key |-> "error",
   value |-> "unauthorized", location |-> ""]

\* http.Redirect(w, r, to, http.StatusFound)
Redirect(to) == [code |-> 302, ctype |-> "", key |-> "", value |-> "", location |-> to]

\* jsonError(w, msg, code)
jsonError(msg, code) == JsonBody(code, "error", msg)

HttpInit ==
  /\ config \in Configs
  /\ adminPassword = RunAdminPass(config)
  /\ hpc = "idle" /\ hreq = NoRequest /\ hresp = NoResponse
  /\ invoked = "" /\ hscrape = NoScrape
  /\ catalog \in InitialCatalogs
  /\ nextId = Len(catalog) + 1
  /\ IdleBulk
  /\ IdleScrape
  /\ IdleViews
  /\ IdleCall

\* requireAdmin(next): refuse, or pass the request on to next
RequireAdmin ==
  /\ hpc = "idle"
  /\ \E route \in AdminRoutes, cookie \in Cookies, ctype \in ContentTypes :
       LET req == RequestOf(route, cookie, ctype)
       IN  /\ hreq' = req
           /\ IF ~isAdminAuthed(adminPassword, req)
              THEN /\ hresp' = IF req.ctype = "application/json" \/ HasApiPrefix(req.path)
                               THEN Unauthorized
                               ELSE Redirect("/admin/login")
                   /\ invoked' = ""
                   /\ hpc' = "idle"
              ELSE /\ hresp' = NoResponse
                   /\ invoked' = route.handler
                   /\ hpc' = "handler"
  /\ hscrape' = NoScrape
  /\ UNCHANGED <<config, adminPassword, dbVars, bulkVars, scrapeVars, viewVars, callVars>>

\* GET /admin/login: to /admin when no password is set or the cookie is
\* good, the login page otherwise
handleAdminLogin ==
  /\ hpc = "idle"
  /\ \E cookie \in Cookies :
       LET req == RequestOf(LoginRoute, cookie, "")
       IN  /\ hreq' = req
           /\ hresp' = IF adminPassword = "" \/ isAdminAuthed(adminPassword, req)
                       THEN Redirect("/admin")
                       ELSE [code |-> 200, ctype |-> "text/html; charset=utf-8",
                             key |-> "login", value |-> "", location |-> ""]
  /\ invoked' = "handleAdminLogin"
  /\ hscrape' = NoScrape
  /\ UNCHANGED <<config, adminPassword, hpc, dbVars, bulkVars, scrapeVars, viewVars, callVars>>

\* the form values of POST /api/add that the model draws
ManualForms ==
  { [title |-> <<>>, url |-> <<>>, platform |-> ""],
    [title |-> <<"a">>, url |-> <<"https://", "www.", "meesho.com", "/p/1">>, platform |-> ""],
    [title |-> <<"a">>, url |-> <<>>, platform |-> "Amazon"] }

UrlForms == { <<>>, <<" ">>, <<"https://", "www.", "meesho.com", "/p/1">> }

\* what the network does when handleAddProduct scrapes
AddNets ==
  { [fails |-> 0, body |-> <<>>],
    [fails |-> 0, body |-> << MetaTag("property", "attr", "og:title", <<"a">>) >>],
    [fails |-> 1, body |-> << MetaTag("property", "attr", "og:title", <<"a">>) >>],
    [fails |-> 2, body |-> <<>>] }

\* q.InsertProduct(r.Context(), params) and the answer of handleAddProduct
SaveProduct(params) ==
  \/ /\ CanInsert
     /\ InsertProduct(params)
     /\ hresp' = JsonBody(200, "ok", "product")
  \/ /\ UNCHANGED dbVars
     /\ hresp' = jsonError("Failed to save", 500)

\* handleAddProduct, mode=manual
AddManual ==
  /\ hpc = "handler" /\ invoked = "handleAddProduct"
  /\ \E f \in ManualForms :
       IF f.title = <<>>
       THEN hresp' = jsonError("Title is required", 400) /\ UNCHANGED dbVars
       ELSE LET d == detectPlatform(f.url)
                platform == IF f.platform # "" THEN f.platform
                            ELSE IF d = "" THEN "Other" ELSE d
            IN  SaveProduct([Title |-> f.title, Url |-> f.url, Platform |-> platform])
  /\ hpc' = "idle"
  /\ UNCHANGED <<config, adminPassword, hreq, invoked, hscrape, bulkVars, scrapeVars, viewVars, callVars>>

\* "Failed to scrape: " + err.Error()
FailedToScrape(err) ==
  CASE err = "empty URL" -> "Failed to scrape: empty URL"
    [] err = "unsupported platform" -> "Failed to scrape: unsupported platform"
    [] OTHER -> "Failed to scrape: fetch page"

\* handleAddProduct, any other mode: scrape the URL
AddByURL ==
  /\ hpc = "handler" /\ invoked = "handleAddProduct"
  /\ \E url \in UrlForms, net \in AddNets :
       IF url = <<>>
       THEN /\ hresp' = jsonError("URL is required", 400)
            /\ UNCHANGED <<dbVars, hscrape>>
       ELSE LET got == ScrapeProduct(url, net)
            IN  /\ hscrape' = got
                /\ IF got.err # ""
                   THEN hresp' = jsonError(FailedToScrape(got.err), 400)
                        /\ UNCHANGED dbVars
                   ELSE SaveProduct([Title |-> got.info.Title, Url |-> got.info.URL,
                                     Platform |-> got.info.Platform])
  /\ hpc' = "idle"
  /\ UNCHANGED <<config, adminPassword, hreq, invoked, bulkVars, scrapeVars, viewVars, callVars>>

\* DELETE FROM products WHERE id = ?
DeleteRow(cat, id) ==
  LET Other(row) == row.ID # id
  IN  SelectSeq(cat, Other)

\* handleDeleteProduct: the error of q.DeleteProduct is dropped
handleDeleteProduct ==
  /\ hpc = "handler" /\ invoked = "handleDeleteProduct"
  /\ IF hreq.path[3] = "x"                           \* strconv.ParseInt fails
     THEN hresp' = jsonError("Invalid ID", 400) /\ UNCHANGED dbVars
     ELSE /\ \/ catalog' = DeleteRow(catalog, 1)
             \/ catalog' = catalog                   \* the DELETE failed
          /\ UNCHANGED nextId
          /\ hresp' = JsonBody(200, "ok", "")
  /\ hpc' = "idle"
  /\ UNCHANGED <<config, adminPassword, hreq, invoked, hscrape, bulkVars, scrapeVars, viewVars, callVars>>

\* the other handlers behind the gate: here they only answer
OtherAdminHandler ==
  /\ hpc = "handler" /\ invoked \notin {"handleAddProduct", "handleDeleteProduct"}
  /\ hresp' = [code |-> 200, ctype |-> "", key |-> invoked, value |-> "", location |-> ""]
  /\ hpc' = "idle"
  /\ UNCHANGED <<config, adminPassword, hreq, invoked, hscrape, dbVars, bulkVars, scrapeVars, viewVars, callVars>>

HttpNext ==
  \/ RequireAdmin
  \/ handleAdminLogin
  \/ AddManual
  \/ AddByURL
  \/ handleDeleteProduct
  \/ OtherAdminHandler

HttpSpec == HttpInit /\ [][HttpNext]_vars

\* a request that went through requireAdmin with a missing or wrong cookie
BadCookie(req) == req.cookie = <<>> \/ req.cookie[1] # adminToken(adminPassword)

\* C6: with a non-empty admin password, a request to a route behind
\* requireAdmin whose admin_token cookie is absent or differs from the admin
\* token never reaches the wrapped handler; it gets 401 under /api/ or with
\* Content-Type application/json, and a 302 to /admin/login otherwise
C6_BadCookieNeverInvokes ==
  (adminPassword # "" /\ IsAdminRoute(hreq) /\ BadCookie(hreq))
    => /\ invoked = ""
       /\ hpc = "idle"
       /\ IF HasApiPrefix(hreq.path) \/ hreq.ctype = "application/json"
          THEN hresp.code = 401
          ELSE hresp.code = 302 /\ hresp.location = "/admin/login"

C6_Witness ==
  /\ adminPassword = "hunter2"
  /\ hreq.path = <<"admin", "analytics">>
  /\ hreq.cookie = <<adminToken("letmein")>>
  /\ hreq.ctype = ""
  /\ hresp.code = 302

\* C7: with both the flag and ADMIN_PASSWORD empty, every request to a
\* route behind requireAdmin reaches its handler whatever its cookie, and
\* GET /admin/login answers with a redirect to /admin
C7_NoPasswordNoAuth ==
  (config = [flag |-> "", env |-> ""] /\ hreq # NoRequest)
    => /\ IsAdminRoute(hreq) => (invoked = HandlerOf(hreq) /\ hresp.code \notin {401, 302})
       /\ (hreq.method = LoginRoute.method /\ hreq.path = LoginRoute.path)
            => hresp = Redirect("/admin")

C7_Witness ==
  /\ config = [flag |-> "", env |-> ""]
  /\ hreq.path = <<"api", "delete", "1">>
  /\ hreq.cookie = << <<"garbage">> >>
  /\ invoked = "handleDeleteProduct"
  /\ hresp.code = 200

\* C10: ScrapeProduct requests the page at most once, a failed request is
\* not repeated and gives an error and no ProductInfo, and handleAddProduct
\* in URL mode then answers with an error and inserts no product
C10_OneFetchNoRetry ==
  /\ [](/\ Len(hscrape.fetches) <= 1
        /\ (hscrape.fetches # <<>> /\ ~hscrape.fetches[1])
             => /\ hscrape.err # ""
                /\ hscrape.info = NoInfo
                /\ hresp.key = "error"
                /\ hresp.code >= 400)
  /\ [][(hscrape'.fetches # <<>> /\ ~hscrape'.fetches[1] /\ hscrape' # hscrape)
          => (catalog' = catalog /\ nextId' = nextId)]_vars

C10_Witness ==
  /\ invoked = "handleAddProduct"
  /\ hscrape.fetches = <<FALSE>>
  /\ hscrape.err = "fetch page"
  /\ hresp.code = 400

(***************************************************************************)
(* server.go: page-view tracking.  handleHome, handleSearch,               *)
(* handleCategory and handleProductDetail start trackView in a goroutine   *)
(* and go on; trackView inserts with the request's context, which net/http *)
(* cancels once the handler has returned.                                  *)
(***************************************************************************)
\* the pages asked for; "product/x" has an id that strconv.ParseInt rejects
ViewPaths == {"home", "search", "category", "product/1", "product/x"}

ViewInit ==
  /\ IdleViews
  /\ IdleCall
  /\ IdleBulk
  /\ IdleScrape
  /\ IdleHttp
  /\ catalog = <<>>
  /\ nextId = 1

\* the handler up to its `go s.trackView(r, ...)`
ViewStart(v) ==
  /\ vpc[v] = "new"
  /\ \E path \in ViewPaths :
       /\ vreq' = [vreq EXCEPT ![v] = path]
       /\ IF path = "product/x"
          THEN /\ vpc' = [vpc EXCEPT ![v] = "returned"]    \* 400, no trackView
               /\ UNCHANGED tpc
          ELSE /\ vpc' = [vpc EXCEPT ![v] = "render"]
               /\ tpc' = [tpc EXCEPT ![v] = "start"]
  /\ UNCHANGED <<ctxDone, pageViews, bulkVars, dbVars, scrapeVars, httpVars, callVars>>

\* the rest of the handler: queries, template, return
ViewRender(v) ==
  /\ vpc[v] = "render"
  /\ vpc' = [vpc EXCEPT ![v] = "returned"]
  /\ UNCHANGED <<vreq, tpc, ctxDone, pageViews, bulkVars, dbVars, scrapeVars, httpVars, callVars>>

\* net/http cancels the request's context after the handler has returned
CancelContext(v) ==
  /\ vpc[v] = "returned"
  /\ vpc' = [vpc EXCEPT ![v] = "done"]
  /\ ctxDone' = [ctxDone EXCEPT ![v] = TRUE]
  /\ UNCHANGED <<vreq, tpc, pageViews, bulkVars, dbVars, scrapeVars, httpVars, callVars>>

\* trackView up to q.InsertPageView: ExecContext gives up at once on a
\* context that is already cancelled
TrackBegin(v) ==
  /\ tpc[v] = "start"
  /\ tpc' = [tpc EXCEPT ![v] = IF ctxDone[v] THEN "done" ELSE "exec"]
  /\ UNCHANGED <<vreq, vpc, ctxDone, pageViews, bulkVars, dbVars, scrapeVars, httpVars, callVars>>

\* the INSERT INTO page_views; a context cancelled while the statement is
\* under way may or may not interrupt it
TrackExec(v) ==
  /\ tpc[v] = "exec"
  /\ \/ pageViews' = Append(pageViews, [request |-> v, Path |-> vreq[v]])
     \/ ctxDone[v] /\ UNCHANGED pageViews
  /\ tpc' = [tpc EXCEPT ![v] = "done"]
  /\ UNCHANGED <<vreq, vpc, ctxDone, bulkVars, dbVars, scrapeVars, httpVars, callVars>>

trackView(v) == TrackBegin(v) \/ TrackExec(v)

ViewNext ==
  \E v \in Views :
    \/ ViewStart(v)
    \/ ViewRender(v)
    \/ CancelContext(v)
    \/ trackView(v)

ViewSpec == ViewInit /\ [][ViewNext]_vars

\* the page_views rows recorded for a request
RowsOf(v) == { i \in 1..Len(pageViews) : pageViews[i].request = v }

\* C8: once a page request that started trackView is over, handler and
\* goroutine both, exactly one page_views row has been recorded for it
C8_ExactlyOneRow ==
  \A v \in Views :
    (vpc[v] = "done" /\ tpc[v] = "done") => Cardinality(RowsOf(v)) = 1

(***************************************************************************)
(* Functions and handlers checked one call at a time: args holds the       *)
(* input, result the output once the call has been made.                   *)
(***************************************************************************)
\* the variables such a call leaves alone, and their values while it runs
nonCall == <<bulkVars, dbVars, scrapeVars, httpVars, viewVars>>

IdleRest ==
  /\ IdleBulk
  /\ IdleScrape
  /\ IdleHttp
  /\ IdleViews
  /\ catalog = <<>> /\ nextId = 1

(***************************************************************************)
(* bulk_import.go: navigateJSON.  A decoded JSON value is a record with    *)
(* its kind t and, for an object, its members e in key order.              *)
(***************************************************************************)
\* most keys given to navigateJSON
MaxKeys == 3

JsonKeys == {"props", "listing"}

JsonLeaf(kind) == [t |-> kind, e |-> <<>>]

Member(key, value) == [k |-> key, v |-> value]

\* the objects over JsonKeys whose members are values of the set given
JsonObjects(values) ==
  LET Opt(key) == {<<>>} \cup { <<Member(key, v)>> : v \in values }
  IN  { [t |-> "object", e |-> a \o b] : a \in Opt("listing"), b \in Opt("props") }

\* JSON values nested not at all, once, twice
JsonFlat == {JsonLeaf("number"), JsonLeaf("null")}
JsonNested == JsonFlat \cup JsonObjects(JsonFlat)
JsonValues == JsonNested \cup JsonObjects(JsonNested)

\* m, ok := current.(map[string]interface{})
IsObject(value) == value.t = "object"

\* _, ok = m[key]
HasKey(obj, key) == \E i \in 1..Len(obj.e) : obj.e[i].k = key

\* m[key]
Lookup(obj, key) == obj.e[CHOOSE i \in 1..Len(obj.e) : obj.e[i].k = key].v

\* navigateJSON that goes on from a value that is not an object
RECURSIVE navigateJSONLenient(_, _)
navigateJSONLenient(data, keys) ==
  IF keys = <<>> THEN [err |-> "", value |-> <<data>>]
  ELSE IF ~IsObject(data) THEN [err |-> "", value |-> <<data>>]
  ELSE IF ~HasKey(data, Head(keys)) THEN [err |-> "key not found", value |-> <<>>]
  ELSE navigateJSONLenient(Lookup(data, Head(keys)), Tail(keys))

\* navigateJSON: the error ("" for nil) and <<the value>> (<<>> for nil)
RECURSIVE navigateJSON(_, _)
navigateJSON(data, keys) ==
  IF keys = <<>> THEN [err |-> "", value |-> <<data>>]
  ELSE IF ~IsObject(data) THEN [err |-> "expected map", value |-> <<>>]
  ELSE IF ~HasKey(data, Head(keys)) THEN [err |-> "key not found", value |-> <<>>]
  ELSE navigateJSON(Lookup(data, Head(keys)), Tail(keys))

NavInit ==
  /\ args \in [data : JsonValues, keys : SeqsUpTo(JsonKeys, MaxKeys)]
  /\ result = <<>>
  /\ IdleRest

Navigate ==
  /\ result = <<>>
  /\ DOMAIN args = {"data", "keys"}
  /\ result' = <<navigateJSON(args.data, args.keys)>>
  /\ UNCHANGED <<args, nonCall>>

NavNext == Navigate

NavSpec == NavInit /\ [][NavNext]_vars

\* the values one step along key from any of the values given
StepAlong(values, key) ==
  UNION { { o.e[i].v : i \in { j \in 1..Len(o.e) : o.e[j].k = key } } :
          o \in { x \in values : IsObject(x) } }

\* the values reached from data by the first n of the keys
RECURSIVE ReachedAfter(_, _, _)
ReachedAfter(data, keys, n) ==
  IF n = 0 THEN {data} ELSE StepAlong(ReachedAfter(data, keys, n - 1), keys[n])

\* C11: navigateJSON gives the value at the end of the keys exactly when
\* every value on the way is an object holding the next key, and an error
\* with no value otherwise; with no keys it gives data
C11_NavigateFollowsKeys ==
  result # <<>> =>
    LET out == result[1]
        end == ReachedAfter(args.data, args.keys, Len(args.keys))
    IN  /\ end # {} => (out.err = "" /\ out.value # <<>> /\ out.value[1] \in end)
        /\ end = {} => (out.err # "" /\ out.value = <<>>)
        /\ args.keys = <<>> => out = [err |-> "", value |-> <<args.data>>]

C11_Witness ==
  /\ result # <<>>
  /\ args.keys = <<"props", "listing">>
  /\ args.data = [t |-> "object", e |-> <<Member("props",
                   [t |-> "object", e |-> <<Member("listing", JsonLeaf("number"))>>])>>]
  /\ result[1] = [err |-> "", value |-> <<JsonLeaf("number")>>]

(***************************************************************************)
(* imgproxy.go: handleImageProxy.  The url parameter is a sequence of text *)
(* pieces: the scheme, the pieces of the host, then the pieces of path and *)
(* query, the first of which starts with "/".                              *)
(***************************************************************************)
\* most pieces of path and query in a proxied URL
MaxPath == 2

ProxyHosts ==
  { <<"images.meesho.com">>, <<"m.media-amazon.com">>, <<"rukminim", "2.flixcart.com">>,
    <<"img.fkcdn", ".com">>, <<"evil.example">>,
    <<"cdn.", "images.meesho.com", ".evil.example">> }

PathPieces == {"/a.jpg", "/?u=", "images.meesho.com", "rukminim", "/"}

\* paths begin with a piece that starts with "/"
StartsPath(piece) == piece \in {"/a.jpg", "/?u=", "/"}

ProxyPaths == { p \in SeqsUpTo(PathPieces, MaxPath) : p = <<>> \/ StartsPath(p[1]) }

ProxyURLs == {<<>>} \cup { <<"https://">> \o h \o p : h \in ProxyHosts, p \in ProxyPaths }

\* the list handleImageProxy looks for
AllowedDomains == {"images.meesho.com", "m.media-amazon.com", "rukminim", "img.fkcdn"}

\* strings.Contains(rawURL, d) for some d of the list
MentionsAllowed(rawURL) == \E d \in AllowedDomains : Contains(rawURL, d)

\* the answer of handleImageProxy and the upstream requests it made
ProxyAnswer(code, upstream) == [code |-> code, upstream |-> upstream]

handleImageProxy(rawURL, valid, reachable) ==
  IF rawURL = <<>> THEN ProxyAnswer(400, <<>>)
  ELSE IF ~MentionsAllowed(rawURL) THEN ProxyAnswer(403, <<>>)
  ELSE IF ~valid THEN ProxyAnswer(400, <<>>)               \* http.NewRequest fails
  ELSE IF ~reachable THEN ProxyAnswer(502, <<rawURL>>)     \* proxyClient.Do fails
  ELSE ProxyAnswer(200, <<rawURL>>)

ProxyInit ==
  /\ args \in [url : ProxyURLs, valid : BOOLEAN, reachable : BOOLEAN]
  /\ result = <<>>
  /\ IdleRest

Proxy ==
  /\ result = <<>>
  /\ DOMAIN args = {"url", "valid", "reachable"}
  /\ result' = <<handleImageProxy(args.url, args.valid, args.reachable)>>
  /\ UNCHANGED <<args, nonCall>>

ProxyNext == Proxy

ProxySpec == ProxyInit /\ [][ProxyNext]_vars

\* the host of a URL: the pieces after the scheme up to the path
RECURSIVE UpToPath(_)
UpToPath(pieces) ==
  IF pieces = <<>> \/ StartsPath(Head(pieces)) THEN <<>>
  ELSE <<Head(pieces)>> \o UpToPath(Tail(pieces))

HostOf(url) == IF url = <<>> THEN <<>> ELSE UpToPath(Tail(url))

\* images.meesho.com, m.media-amazon.com, rukminim*, img.fkcdn*
IsCdnHost(host) ==
  \/ host \in {<<"images.meesho.com">>, <<"m.media-amazon.com">>}
  \/ host # <<>> /\ host[1] \in {"rukminim", "img.fkcdn"}

\* C13: handleImageProxy makes an upstream request only for a URL whose
\* host is one of the allowed CDN domains; any other target gets 403 (400
\* when it is no URL at all) and nothing is fetched
C13_OnlyCdnHosts ==
  (result # <<>> /\ DOMAIN args = {"url", "valid", "reachable"}) =>
    /\ result[1].upstream # <<>> => IsCdnHost(HostOf(args.url))
    /\ (args.url # <<>> /\ ~IsCdnHost(HostOf(args.url)))
         => (result[1].upstream = <<>> /\ (args.valid => result[1].code = 403))

(***************************************************************************)
(* server.go: handleUpdateProduct and the UPDATE of UpdateProduct.  A      *)
(* product is a function from its column names; text is a sequence of      *)
(* pieces, <<>> the empty string; is_new and is_bestseller are integers.   *)
(***************************************************************************)
\* most text fields one update form fills in
MaxProvided == 2

TextFields ==
  { "title", "price", "original_price", "image_url", "description", "rating",
    "category", "images", "long_description", "url", "platform" }

FlagFields == {"is_new", "is_bestseller"}

\* the stored product: every text column set, the flags either way
StoredProducts ==
  { [f \in TextFields \cup FlagFields |->
       IF f \in TextFields THEN <<"old", f>> ELSE IF f = "is_new" THEN n ELSE 1 - n] :
    n \in {0, 1} }

\* r.FormValue of the flags: absent, numbers, and a checkbox's "on"
FlagForms == {<<>>, <<"0">>, <<"1">>, <<"on">>}

\* the forms: at most MaxProvided text fields given, the flags in any way
UpdateForms ==
  { [f \in TextFields \cup FlagFields |->
       IF f \in given THEN <<"new", f>>
       ELSE IF f = "is_new" THEN n ELSE IF f = "is_bestseller" THEN b ELSE <<>>] :
    given \in { g \in SUBSET TextFields : Cardinality(g) <= MaxProvided },
    n \in FlagForms, b \in FlagForms }

\* v, _ := strconv.ParseInt(s, 10, 64): 0 when s is no number
ParseInt(text) ==
  CASE text = <<"1">> -> 1
    [] text = <<"0">> -> 0
    [] OTHER -> 0

\* a form value that replaces the stored one even when it is empty
ProvidedAlways(given, stored) == given

\* x := r.FormValue(...); if x == "" { x = p.X }
Provided(given, stored) == IF given = <<>> THEN stored ELSE given

\* the UpdateProductParams handleUpdateProduct builds from the form and p
UpdateParams(form, p) ==
  [f \in TextFields \cup FlagFields |->
     IF f \in TextFields THEN Provided(form[f], p[f])
     ELSE IF form[f] # <<>> THEN ParseInt(form[f]) ELSE p[f]]

\* handleUpdateProduct: the status code and the row as stored afterwards;
\* found is whether GetProduct has the row, saved whether the UPDATE works
handleUpdateProduct(idOK, found, saved, form, p) ==
  IF ~idOK THEN [code |-> 400, row |-> p]
  ELSE IF ~found THEN [code |-> 404, row |-> p]
  ELSE IF ~saved THEN [code |-> 500, row |-> p]
  ELSE [code |-> 200, row |-> UpdateParams(form, p)]

UpdateOutcomes ==
  { [idOK |-> FALSE, found |-> FALSE, saved |-> FALSE],
    [idOK |-> TRUE, found |-> FALSE, saved |-> FALSE],
    [idOK |-> TRUE, found |-> TRUE, saved |-> FALSE],
    [idOK |-> TRUE, found |-> TRUE, saved |-> TRUE] }

UpdateInit ==
  /\ args \in [p : StoredProducts, form : UpdateForms, io : UpdateOutcomes]
  /\ result = <<>>
  /\ IdleRest

Update ==
  /\ result = <<>>
  /\ DOMAIN args = {"p", "form", "io"}
  /\ result' = <<handleUpdateProduct(args.io.idOK, args.io.found, args.io.saved,
                                     args.form, args.p)>>
  /\ UNCHANGED <<args, nonCall>>

UpdateNext == Update

UpdateSpec == UpdateInit /\ [][UpdateNext]_vars

MaxHome == 6

HomeProduct(id, isNew, isBestseller) ==
  [ID |-> id, IsNew |-> isNew, IsBestseller |-> isBestseller]

\* the tags <<is_new, is_bestseller>> of the catalog's products, newest first
HomeTags == SeqsUpTo({0, 1} \X {0, 1}, MaxHome)

\* SELECT * FROM products ORDER BY added_at DESC: the newest row has the
\* highest ID
ListProducts(tags) ==
  [i \in 1..Len(tags) |-> HomeProduct(Len(tags) + 1 - i, tags[i][1], tags[i][2])]

\* SELECT * FROM products WHERE is_new = 1 ORDER BY added_at DESC
ListNewArrivals(products) ==
  LET Tagged(row) == row.IsNew = 1
  IN  SelectSeq(products, Tagged)

\* SELECT * FROM products WHERE is_bestseller = 1 ORDER BY added_at DESC
ListBestSellers(products) ==
  LET Tagged(row) == row.IsBestseller = 1
  IN  SelectSeq(products, Tagged)

IDsOf(rows) == { rows[i].ID : i \in 1..Len(rows) }

\* the loop body without the featuredMap test
AddFeaturedAlways(featured, row) == Append(featured, row)

\* if !featuredMap[p.ID] { featuredMap[p.ID] = true; featured = append(featured, p) }
AddFeatured(featured, row) ==
  IF row.ID \in IDsOf(featured) THEN featured ELSE Append(featured, row)

\* for _, p := range rows { AddFeatured }
RECURSIVE AddAll(_, _)
AddAll(featured, rows) ==
  IF rows = <<>> THEN featured
  ELSE AddAll(AddFeatured(featured, Head(rows)), Tail(rows))

\* for _, p := range products { if len(featured) >= 5 { break }; AddFeatured }
RECURSIVE Pad(_, _)
Pad(featured, rows) ==
  IF rows = <<>> \/ Len(featured) >= 5 THEN featured
  ELSE Pad(AddFeatured(featured, Head(rows)), Tail(rows))

\* if len(featured) > 5 { featured = featured[:5] }
Cap(featured) == IF Len(featured) > 5 THEN SubSeq(featured, 1, 5) ELSE featured

\* the Featured value handleHome hands to the template
Featured(products) ==
  Cap(Pad(AddAll(AddAll(<<>>, ListBestSellers(products)), ListNewArrivals(products)),
          products))

HomeInit ==
  /\ args \in [tags : HomeTags]
  /\ result = <<>>
  /\ IdleRest

Home ==
  /\ result = <<>>
  /\ DOMAIN args = {"tags"}
  /\ result' = <<Featured(ListProducts(args.tags))>>
  /\ UNCHANGED <<args, nonCall>>

HomeNext == Home

HomeSpec == HomeInit /\ [][HomeNext]_vars

\* 0 for a best seller, 1 for a new arrival that is none, 2 for the rest
FeaturedRank(row) == IF row.IsBestseller = 1 THEN 0 ELSE IF row.IsNew = 1 THEN 1 ELSE 2

C18_PadOnlyBelowFour ==
  (result # <<>> /\ DOMAIN args = {"tags"}) =>
    LET products == ListProducts(args.tags)
        tagged == { i \in 1..Len(products) : FeaturedRank(products[i]) < 2 }
    IN  Cardinality(tagged) >= 4 =>
          \A i \in 1..Len(result[1]) : FeaturedRank(result[1][i]) < 2

(***************************************************************************)
(* server.go: the related products of handleProductDetail.  Of a product   *)
(* its ID and category are modelled; "" is the empty category.             *)
(***************************************************************************)
\* most products in the catalog when a product page is built
MaxDetail == 6

DetailCategories == {"", "Kurti", "Saree"}

\* the catalogs, newest first
DetailCatalogs ==
  UNION { { [i \in 1..n |-> [ID |-> n + 1 - i, Category |-> cats[i]]] :
            cats \in [1..n -> DetailCategories] } : n \in 0..MaxDetail }

\* SELECT * FROM products WHERE category = ? ORDER BY added_at DESC
ListProductsByCategory(products, category) ==
  LET InCategory(row) == row.Category = category
  IN  SelectSeq(products, InCategory)

\* the test of the filter loop, letting the current product through
IsOtherProductAlways(rp, product) == TRUE

\* rp.ID != product.ID
IsOtherProduct(rp, product) == rp.ID # product.ID

\* for _, rp := range related { if other { append }; if len >= 4 { break } }
RECURSIVE FilterRelated(_, _, _)
FilterRelated(filtered, related, product) ==
  IF related = <<>> THEN filtered
  ELSE LET next == IF IsOtherProduct(Head(related), product)
                   THEN Append(filtered, Head(related)) ELSE filtered
       IN  IF Len(next) >= 4 THEN next
           ELSE FilterRelated(next, Tail(related), product)

\* handleProductDetail from GetProduct on: the status code, the product and
\* the Related value handed to the template
handleProductDetail(products, id) ==
  LET found == { i \in 1..Len(products) : products[i].ID = id }
  IN  IF found = {} THEN [code |-> 404, product |-> <<>>, related |-> <<>>]
      ELSE LET product == products[CHOOSE i \in found : TRUE]
               related == IF product.Category # ""
                          THEN ListProductsByCategory(products, product.Category)
                          ELSE <<>>
           IN  [code |-> 200, product |-> <<product>>,
                related |-> FilterRelated(<<>>, related, product)]

DetailInit ==
  /\ args \in { [products |-> c, id |-> i] :
                c \in DetailCatalogs, i \in 1..(MaxDetail + 1) }
  /\ args.id <= Len(args.products) + 1
  /\ result = <<>>
  /\ IdleRest

Detail ==
  /\ result = <<>>
  /\ DOMAIN args = {"products", "id"}
  /\ result' = <<handleProductDetail(args.products, args.id)>>
  /\ UNCHANGED <<args, nonCall>>

DetailNext == Detail

DetailSpec == DetailInit /\ [][DetailNext]_vars

\* C19: the related products never include the product viewed, are at
\* most 4, all have its category, and are none when its category is ""
C19_RelatedProducts ==
  (result # <<>> /\ DOMAIN args = {"products", "id"} /\ result[1].code = 200) =>
    LET product == result[1].product[1]
        related == result[1].related
    IN  /\ \A i \in 1..Len(related) :
             related[i].ID # product.ID /\ related[i].Category = product.Category
        /\ Len(related) <= 4
        /\ product.Category = "" => related = <<>>

\* six products of one category, the one viewed among the first four
C19_Witness ==
  /\ result # <<>> /\ DOMAIN args = {"products", "id"}
  /\ Len(args.products) = 6
  /\ \A i \in 1..6 : args.products[i].Category = "Kurti"
  /\ args.id = 5
  /\ Len(result[1].related) = 4
  /\ result[1].related[4].ID = 2

(***************************************************************************)
(* server.go: parsePrice.  A price string is a sequence of characters; the *)
(* rupee sign is written "(rupee)".  A float64 is the pair of an integer n *)
(* and a power of ten d, for n / d.                                        *)
(***************************************************************************)
\* most digits of the number in a price string
MaxDigits == 4

Digits == {"0", "3", "7"}

DigitValue(c) == CASE c = "0" -> 0 [] c = "3" -> 3 [] c = "7" -> 7 [] OTHER -> 0

\* the currency prefixes of the stored prices
CurrencyPrefixes == { <<"(rupee)">>, <<"R", "s", ".", " ">>, <<"R", "s", " ">>, <<"$">>, <<>> }

\* a digit string with the thousands separator put in
WithSeparator(ds) ==
  IF Len(ds) > 3
  THEN SubSeq(ds, 1, Len(ds) - 3) \o <<",">> \o SubSeq(ds, Len(ds) - 2, Len(ds))
  ELSE ds

DigitStrings == SeqsUpTo(Digits, MaxDigits) \ {<<>>}

PriceInputs ==
  [prefix : CurrencyPrefixes, digits : DigitStrings, separated : BOOLEAN]

\* the string such an input stands for
PriceString(in) ==
  in.prefix \o (IF in.separated THEN WithSeparator(in.digits) ELSE in.digits)

\* the number a digit string writes
RECURSIVE NumberOf(_)
NumberOf(ds) ==
  IF ds = <<>> THEN 0 ELSE 10 * NumberOf(SubSeq(ds, 1, Len(ds) - 1)) + DigitValue(ds[Len(ds)])

RECURSIVE PowerOfTen(_)
PowerOfTen(k) == IF k = 0 THEN 1 ELSE 10 * PowerOfTen(k - 1)

\* (c >= '0' && c <= '9') || c == '.'
Kept(c) == c \in Digits \/ c = "."

\* v, _ := strconv.ParseFloat(text, 64) for text of digits and dots: 0
\* unless text is digits with at most one dot and at least one digit
ParseFloat(text) ==
  LET IsDigit(c) == c # "."
      dots == { i \in 1..Len(text) : text[i] = "." }
      digits == SelectSeq(text, IsDigit)
  IN  IF digits = <<>> \/ Cardinality(dots) > 1 THEN [n |-> 0, d |-> 1]
      ELSE IF dots = {} THEN [n |-> NumberOf(digits), d |-> 1]
      ELSE [n |-> NumberOf(digits),
            d |-> PowerOfTen(Len(text) - (CHOOSE i \in dots : TRUE))]

parsePrice(text) == ParseFloat(SelectSeq(text, Kept))

PriceInit ==
  /\ args \in PriceInputs
  /\ result = <<>>
  /\ IdleRest

Price ==
  /\ result = <<>>
  /\ DOMAIN args = {"prefix", "digits", "separated"}
  /\ result' = <<parsePrice(PriceString(args))>>
  /\ UNCHANGED <<args, nonCall>>

PriceNext == Price

PriceSpec == PriceInit /\ [][PriceNext]_vars

\* C20: for a currency prefix followed by a number with optional thousands
\* separators parsePrice gives that number
C20_ParsePriceGivesNumber ==
  (result # <<>> /\ DOMAIN args = {"prefix", "digits", "separated"}) =>
    result[1].n = NumberOf(args.digits) * result[1].d

====
